---- MODULE Spec2Model ----
(***************************************************************************)
(* Model of src/webviews/main.ts: compileVueWebview, the class it returns  *)
(* (constructor, show and the init/submit closures of a session) and the   *)
(* parts of the host panel the class relies on (onDidDispose, dispose).    *)
(*                                                                         *)
(* JavaScript runs the code on one event loop: a handler runs without      *)
(* interruption up to its next await.  Every action below is one such run: *)
(* show() up to "await params.validateData?.(data)", the rest of show(),   *)
(* submit() up to "await validate", the rest of submit(), and the host's   *)
(* events.                                                                 *)
(***************************************************************************)
EXTENDS Naturals, Sequences, FiniteSets

\* ------------------------------------------------------------------ bounds
MaxInstances == 2
MaxSessions == 2
MaxSubmits == 2

\* Values passed to show(data?) ("undefined" is show() without an argument)
\* and values a webview submits.
Data == {"undefined", "d1"}
Responses == {"ok", "bad"}

\* Key sets a descriptor may declare for params.commands / params.events.
\* "submit" and "init" are there because the spread in the call of
\* registerWebviewServer lets a declared key replace a built-in.
CommandKeySets == {{"ping"}, {"ping", "submit"}}
EventKeySeqs == {<<>>, <<"ev">>, <<"ev", "init">>}

Undefined == "undefined"

VARIABLES
    params,      \* the descriptor given to compileVueWebview (compiled = FALSE before)
    emitters,    \* emitters[i]: this.emitters of instance i, event key -> emitter object
    emitterHeap, \* number of vscode.EventEmitter objects created so far
    sess,        \* sess[s]: the closure of the s-th show() call
    result,      \* result[s]: state of the promise the s-th show() call returned
    panels,      \* panels[p]: the p-th panel made by vscode.window.createWebviewPanel
    calls,       \* calls[k]: the k-th call of a built-in submit handler
    log,         \* log[s]: how each finished submit call ended for its caller
    initReply,   \* initReply[p]: what the webview of panel p got from its last call of init
    env,         \* process.env.WEBPACK_DEVELOPER_SERVER
    opts,        \* what createVueWebview reads to build the document of a panel
    html         \* panel.webview.html of that panel

\* the state of the sessions and the state of the document of a panel
svars == <<params, emitters, emitterHeap, sess, result, panels, calls, log, initReply>>
hvars == <<env, opts, html>>
vars == <<svars, hvars>>

\* ------------------------------------------------------------- descriptor
NotCompiled == [compiled |-> FALSE]

\* WebviewParams & WebviewCompileOptions, as far as the class reads them:
\* commands and events are optional objects, the two hooks optional functions.
Descriptors ==
    [compiled : {TRUE},
     hasCommands : BOOLEAN, commands : CommandKeySets \cup {{}},
     hasEvents : BOOLEAN, events : EventKeySeqs \cup {<<>>},
     validateData : BOOLEAN, validateSubmit : BOOLEAN]

\* an absent map has no keys; a declared one has one of the key sets above
WellFormed(d) ==
    /\ IF d.hasCommands THEN d.commands \in CommandKeySets ELSE d.commands = {}
    /\ IF d.hasEvents THEN d.events \in EventKeySeqs ELSE d.events = <<>>

Range(f) == {f[x] : x \in DOMAIN f}

\* ---------------------------------------------------------------- promise
Pending == [state |-> "pending", value |-> "none"]
Resolved(v) == [state |-> "resolved", value |-> v]
Rejected == [state |-> "rejected", value |-> "error"]

\* The heap the handlers of a session act on: the panels and the promises.
Heap == [panels |-> panels, result |-> result]

\* Mutant of Resolve: a resolve that overwrites a settled promise.
ResolveOverwrites(h, s, v) == [h EXCEPT !.result[s] = Resolved(v)]

\* resolve(v) of "new Promise((resolve, reject) => ...)": settles a pending
\* promise and does nothing to a settled one.
Resolve(h, s, v) ==
    IF h.result[s].state = "pending"
    THEN [h EXCEPT !.result[s] = Resolved(v)]
    ELSE h

\* ------------------------------------------------------------------ panel
AllKeys == {"init", "submit", "ping", "ev"}
None == [kind |-> "none", ref |-> 0]
NoServer == [k \in AllKeys |-> None]

\* no callback for any of the sessions 1..n
RECURSIVE NoCallbacks(_)
NoCallbacks(n) == IF n = 0 THEN <<>> ELSE Append(NoCallbacks(n - 1), FALSE)

\* vscode.window.createWebviewPanel: an open panel, nobody listening, a bare
\* webview (no dispose, no emitters, no arguments, no message server).
\* listeners[s] tells whether the onDidDispose callback of session s is on
\* the panel, fired[s] whether the panel has called it.
FreshPanel ==
    [disposed |-> FALSE, listeners |-> NoCallbacks(MaxSessions),
     fired |-> NoCallbacks(MaxSessions),
     server |-> NoServer,
     hasDispose |-> FALSE, emitters |-> 0, arguments |-> "unset"]

\* Mutant of CreateVueWebview: the panel is created once and handed to every
\* later show().
CreateVueWebviewOnce(ps) == IF ps = <<>> THEN Append(ps, FreshPanel) ELSE ps

\* createVueWebview returns the panel it has just created: the last one.
CreateVueWebview(ps) == Append(ps, FreshPanel)

\* Mutant of OnDidDispose: show() registers no disposal listener.
OnDidDisposeMissing(h, p, s) == h

\* panel.onDidDispose(() => resolve(undefined)) for the promise of session s
OnDidDispose(h, p, s) == [h EXCEPT !.panels[p].listeners[s] = TRUE]

\* onDispose.dispose(): the listener of session s is taken off the panel
OnDisposeDispose(h, p, s) == [h EXCEPT !.panels[p].listeners[s] = FALSE]

\* the callback registered with onDidDispose
OnDisposeCallback(h, s) == Resolve(h, s, Undefined)

\* the onDidDispose event of panel p fires: the callbacks of the sessions
\* 1..n that are registered are called, and the event, disposed after it
\* fired, drops them
RECURSIVE FireOnDidDispose(_, _, _)
FireOnDidDispose(h, p, n) ==
    IF n = 0 THEN h
    ELSE LET h1 == FireOnDidDispose(h, p, n - 1)
         IN  IF h1.panels[p].listeners[n]
             THEN [OnDisposeCallback(h1, n) EXCEPT !.panels[p].fired[n] = TRUE,
                                                  !.panels[p].listeners[n] = FALSE]
             ELSE h1

\* panel.dispose(), also the host closing the panel: the first disposal
\* marks the panel disposed and fires onDidDispose; a disposed panel
\* ignores it.
PanelDispose(h, p) ==
    IF h.panels[p].disposed
    THEN h
    ELSE FireOnDidDispose([h EXCEPT !.panels[p].disposed = TRUE], p, MaxSessions)

\* --------------------------------------------------------------- instance
\* params.events ?? {}
EventKeys(d) == IF d.hasEvents THEN d.events ELSE <<>>

\* Mutant of CopyEmitters: the instances take the emitter objects of the
\* class instead of creating their own.
CopyEmittersOfClass(d, heap) ==
    LET keys == EventKeys(d)
    IN  [k \in Range(keys) |-> CHOOSE n \in DOMAIN keys : keys[n] = k]

\* the constructor's copyEmitters: one new vscode.EventEmitter per key of
\* params.events; heap is the number of emitters that exist already.
CopyEmitters(d, heap) ==
    LET keys == EventKeys(d)
    IN  [k \in Range(keys) |-> heap + (CHOOSE n \in DOMAIN keys : keys[n] = k)]

\* Mutant of Protocol: a built-in is not replaced by a declared key.
ProtocolBuiltinsWin(d, s, ems) ==
    [k \in AllKeys |->
        IF k = "init" THEN [kind |-> "init", ref |-> s]
        ELSE IF k = "submit" THEN [kind |-> "submit", ref |-> s]
        ELSE IF k \in DOMAIN ems THEN [kind |-> "emitter", ref |-> ems[k]]
        ELSE IF k \in d.commands THEN [kind |-> "command", ref |-> 0]
        ELSE None]

\* { init, submit, ...params.commands, ...this.emitters }: a later spread
\* replaces an earlier entry of the same key.
Protocol(d, s, ems) ==
    [k \in AllKeys |->
        IF k \in DOMAIN ems THEN [kind |-> "emitter", ref |-> ems[k]]
        ELSE IF k \in d.commands THEN [kind |-> "command", ref |-> 0]
        ELSE IF k = "init" THEN [kind |-> "init", ref |-> s]
        ELSE IF k = "submit" THEN [kind |-> "submit", ref |-> s]
        ELSE None]

\* Object.assign(panel.webview, {dispose, context, emitters, arguments}):
\* the webview of panel p gets a dispose(), the emitters of instance i and
\* the data
ModifiedWebview(h, p, i, data) ==
    [h EXCEPT !.panels[p] =
        [@ EXCEPT !.hasDispose = TRUE, !.emitters = i, !.arguments = data]]

\* Mutant of Executor: the messaging layer is set up whenever the descriptor
\* declares commands or events.
ExecutorForEvents(h, p, s, i, data) ==
    LET h1 == OnDidDispose(h, p, s)
    IN  IF params.hasCommands \/ params.hasEvents
        THEN [h1 EXCEPT !.panels[p] =
                 [@ EXCEPT !.hasDispose = TRUE, !.emitters = i, !.arguments = data,
                           !.server = Protocol(params, s, emitters[i])]]
        ELSE h1

\* Mutant of ModifiedWebviewDispose: the dispose() put on the webview takes
\* the disposal listeners off before it disposes the panel.
ModifiedWebviewDisposeSilent(h, p) ==
    [h EXCEPT !.panels[p].disposed = TRUE,
              !.panels[p].listeners = NoCallbacks(MaxSessions)]

\* dispose: () => panel.dispose(), the dispose() show() puts on the webview
ModifiedWebviewDispose(h, p) == PanelDispose(h, p)

\* registerWebviewServer(webview, protocol): every key of the protocol is
\* bound on the messaging channel of the webview
RegisterWebviewServer(h, p, protocol) == [h EXCEPT !.panels[p].server = protocol]

\* Mutant of Executor: every session registers the emitters of the first
\* instance.
ExecutorFirstInstance(h, p, s, i, data) ==
    LET h1 == OnDidDispose(h, p, s)
    IN  IF params.hasCommands
        THEN RegisterWebviewServer(ModifiedWebview(h1, p, 1, data), p,
                                   Protocol(params, s, emitters[1]))
        ELSE h1

\* the executor of the promise show() returns, run for session s of
\* instance i on panel p
Executor(h, p, s, i, data) ==
    LET h1 == OnDidDispose(h, p, s)
    IN  IF params.hasCommands
        THEN RegisterWebviewServer(ModifiedWebview(h1, p, i, data), p,
                                   Protocol(params, s, emitters[i]))
        ELSE h1

\* Mutant of InitHandler: init answers with the data of the latest show().
InitHandlerLatest(s) == sess[Len(sess)].data

\* const init = async () => data
InitHandler(s) == sess[s].data

\* Mutant of SubmitAccept: the panel is left open.
SubmitAcceptKeepsPanel(h, p, s, response) ==
    Resolve(OnDisposeDispose(h, p, s), s, response)

\* Mutant of SubmitAccept: the promise is not resolved.
SubmitAcceptUnresolved(h, p, s, response) ==
    PanelDispose(OnDisposeDispose(h, p, s), p)

\* Mutant of SubmitAccept: the panel is disposed before the disposal
\* listener is removed.
SubmitAcceptDisposesFirst(h, p, s, response) ==
    Resolve(OnDisposeDispose(PanelDispose(h, p), p, s), s, response)

\* the accepted branch of submit: onDispose.dispose(); panel.dispose();
\* resolve(response)
SubmitAccept(h, p, s, response) ==
    Resolve(PanelDispose(OnDisposeDispose(h, p, s), p), s, response)

\* Mutant of SubmitContinue: the awaited value is not tested, a falsy
\* value is accepted like a truthy one.
SubmitContinueUntested(h, p, s, response, o) ==
    IF o \in {"truthy", "falsy"} THEN SubmitAccept(h, p, s, response) ELSE h

\* Mutant of SubmitContinue: a rejection of the hook is caught and the
\* submit is accepted.
SubmitContinueCaught(h, p, s, response, o) ==
    IF o \in {"truthy", "reject"} THEN SubmitAccept(h, p, s, response) ELSE h

\* submit from the end of "await validate", which ended with o: the branch
\* is taken for a truthy value; a falsy value skips it and a rejection
\* leaves the handler before it.
SubmitContinue(h, p, s, response, o) ==
    IF o = "truthy" THEN SubmitAccept(h, p, s, response) ELSE h

\* Mutant of Constructor: the constructor opens the panel.
ConstructorOpensPanel(d, heap, ps) ==
    [emitters |-> CopyEmitters(d, heap), heap |-> heap + Len(EventKeys(d)),
     panels |-> CreateVueWebview(ps)]

\* the constructor, given the panels and the number of emitters that exist:
\* it builds this.emitters and touches no panel
Constructor(d, heap, ps) ==
    [emitters |-> CopyEmitters(d, heap), heap |-> heap + Len(EventKeys(d)), panels |-> ps]

\* What "params.validateData?.(data)" can do when show() calls it: nothing
\* to call, throw at once, or hand back something show() awaits.
ValidateDataCall(d) == IF d.validateData THEN {"throw", "await"} ELSE {"await"}

\* What "await params.validateData?.(data)" can end with.
ValidateDataAwait(d) ==
    IF d.validateData THEN {"truthy", "falsy", "reject"} ELSE {"undefined"}

\* Mutant of ValidateDataPasses: show() goes on only for a truthy result.
ValidateDataGates(o) == o \in {"truthy", "undefined"}

\* show() goes on after the await unless the awaited value was a rejection;
\* the value itself is dropped.
ValidateDataPasses(o) == o # "reject"

\* What "const validate = params.validateSubmit?.(response)" followed by the
\* test of "validate &&" can do: without a hook validate is undefined and
\* the test fails; a hook throws, returns a falsy value, or returns a truthy
\* value or a promise, which is then awaited.
ValidateSubmitCall(d) ==
    IF d.validateSubmit THEN {"throw", "falsy", "await"} ELSE {"undefined"}

\* What "await validate" can end with.
ValidateSubmitAwait == {"truthy", "falsy", "reject"}

\* --------------------------------------------------------------- document
\* A value of the environment variable: absent, or a text.  The text of a
\* URL is kept as the three parts Uri.parse cuts it into (scheme, authority,
\* path); the empty text has three empty parts.
EnvUnset == [defined |-> FALSE, text |-> <<"", "", "">>]
EnvTexts ==
    {<<"", "", "">>, <<"http", "localhost:9000", "">>,
     <<"http", "localhost:9000", "/">>, <<"http", "127.0.0.1:8080", "/app">>}
Envs == {EnvUnset} \cup {[defined |-> TRUE, text |-> x] : x \in EnvTexts}

\* the text as it was written
Text(x) == IF x[1] = "" THEN "" ELSE x[1] \o "://" \o x[2] \o x[3]

\* params.webviewJs, panel.webview.cspSource, params.libFiles, params.cssFiles
WebviewJsNames == {"main.js", "createSam.js", "lambda/index.js"}
CspSources == {"https://*.vscode-cdn.net", "vscode-resource:"}
LibFileSeqs == {<<>>, <<"extra.js">>}
CssFileSeqs == {<<>>, <<"base.css">>}
Opts ==
    [webviewJs : WebviewJsNames, cspSource : CspSources,
     libFiles : LibFileSeqs, cssFiles : CssFileSeqs]

\* vscode.Uri.parse: an http, https or file URI without a path gets "/"
UriParse(x) ==
    [scheme |-> x[1], authority |-> x[2],
     path |-> IF x[1] \in {"http", "https", "file"} /\ x[3] = "" THEN "/" ELSE x[3]]

\* uri.with({ path })
UriWith(u, path) == [u EXCEPT !.path = path]

\* uri.toString(), also what a template literal makes of a Uri
UriToString(u) == u.scheme \o "://" \o u.authority \o u.path

\* vscode.Uri.file
UriFile(path) == [scheme |-> "file", authority |-> "", path |-> path]

\* panel.webview.asWebviewUri: the file as a resource of the webview
AsWebviewUri(u) ==
    [scheme |-> "https", authority |-> "file+.vscode-resource.vscode-cdn.net",
     path |-> u.path]

\* context.extensionPath and path.join
ExtensionPath == "/ext"
PathJoin(a, b) == a \o "/" \o b

\* ExtensionUtilities.getFilesAsVsCodeResources: the webview URI of every
\* file of the directory
GetFilesAsVsCodeResources(dir, files) ==
    [n \in DOMAIN files |-> UriToString(AsWebviewUri(UriFile(PathJoin(dir, files[n]))))]

\* if (LOCAL_SERVER): an absent variable and the empty text are falsy
Truthy(e) == e.defined /\ Text(e.text) # ""

\* Mutant of ResolveWebviewHtml: the environment is not looked at.
ResolveWebviewHtmlBundled(p) ==
    [defaultSrc |-> <<"'none'">>,
     connectSrc |-> <<"none">>,
     imgSrc |-> <<p.cspSource, "https:">>,
     scriptSrc |-> <<p.cspSource>>,
     styleSrc |-> <<p.cspSource, "'unsafe-inline'">>,
     fontSrc |-> <<"'self'", "data:">>,
     scripts |-> p.scripts, stylesheets |-> p.stylesheets,
     main |-> UriToString(p.main)]

\* resolveWebviewHtml: the document, as the source lists of the directives
\* of its Content-Security-Policy, the script and stylesheet elements and the
\* src of the main script.  A source list is the sequence of the
\* space-separated sources.
ResolveWebviewHtml(p) ==
    LET dev == Truthy(env)
        local == UriParse(env.text)
        cspSource == IF dev THEN <<p.cspSource, UriToString(local)>> ELSE <<p.cspSource>>
        main == IF dev THEN UriWith(local, "/" \o p.webviewJs) ELSE p.main
        connectSource == IF dev THEN <<"'self'", "ws:">> ELSE <<"none">>
    IN  [defaultSrc |-> <<"'none'">>,
         connectSrc |-> connectSource,
         imgSrc |-> cspSource \o <<"https:">>,
         scriptSrc |-> cspSource,
         styleSrc |-> cspSource \o <<"'unsafe-inline'">>,
         fontSrc |-> <<"'self'", "data:">>,
         scripts |-> p.scripts, stylesheets |-> p.stylesheets,
         main |-> UriToString(main)]

\* createVueWebview from loadLibs on: the script and stylesheet elements,
\* the bundled main script and the document
CreateVueWebviewHtml(o) ==
    LET media == PathJoin(ExtensionPath, "media")
        loadLibs == GetFilesAsVsCodeResources(PathJoin(media, "libs"),
                                              <<"vue.min.js">> \o o.libFiles)
                    \o GetFilesAsVsCodeResources(PathJoin(media, "js"),
                                                 <<"loadVsCodeApi.js">>)
        loadCss == GetFilesAsVsCodeResources(PathJoin(media, "css"), o.cssFiles)
        mainScript == AsWebviewUri(UriFile(PathJoin(PathJoin(ExtensionPath, "dist"),
                                                    o.webviewJs)))
    IN  ResolveWebviewHtml([scripts |-> loadLibs, stylesheets |-> loadCss,
                            main |-> mainScript, webviewJs |-> o.webviewJs,
                            cspSource |-> o.cspSource])

\* panel.webview.html before createVueWebview assigns it
NoHtml ==
    [defaultSrc |-> <<>>, connectSrc |-> <<>>, imgSrc |-> <<>>, scriptSrc |-> <<>>,
     styleSrc |-> <<>>, fontSrc |-> <<>>, scripts |-> <<>>, stylesheets |-> <<>>,
     main |-> ""]

\* ------------------------------------------------------------------- Init
Init ==
    /\ params = NotCompiled
    /\ emitters = <<>>
    /\ emitterHeap = 0
    /\ sess = <<>>
    /\ result = <<>>
    /\ panels = <<>>
    /\ calls = <<>>
    /\ log = <<>>
    /\ initReply = <<>>
    /\ env = EnvUnset
    /\ opts = [webviewJs |-> "main.js", cspSource |-> "https://*.vscode-cdn.net",
               libFiles |-> <<>>, cssFiles |-> <<>>]
    /\ html = NoHtml

\* ---------------------------------------------------------------- actions
\* compileVueWebview(params): returns the class, nothing else happens
Compile(d) ==
    /\ ~params.compiled
    /\ WellFormed(d)
    /\ params' = d
    /\ UNCHANGED <<emitters, emitterHeap, sess, result, panels, calls, log, initReply>>
    /\ UNCHANGED hvars

\* new (context): the constructor
Construct ==
    /\ params.compiled
    /\ Len(emitters) < MaxInstances
    /\ LET c == Constructor(params, emitterHeap, panels)
       IN  /\ emitters' = Append(emitters, c.emitters)
           /\ emitterHeap' = c.heap
           /\ panels' = c.panels
    /\ initReply' = IF Len(panels') > Len(initReply)
                    THEN Append(initReply, "noreply") ELSE initReply
    /\ UNCHANGED <<params, sess, result, calls, log>>
    /\ UNCHANGED hvars

\* show(data) on instance i, up to the await of its first line
ShowCall(i, data) ==
    /\ i \in DOMAIN emitters
    /\ Len(sess) < MaxSessions
    /\ \E o \in ValidateDataCall(params) :
          /\ sess' = Append(sess, [inst |-> i, data |-> data, panel |-> 0,
                                   pc |-> IF o = "throw" THEN "rejected" ELSE "validateData",
                                   validated |-> IF o = "throw" THEN "throw" ELSE "none"])
          /\ result' = Append(result, IF o = "throw" THEN Rejected ELSE Pending)
    /\ log' = Append(log, <<>>)
    /\ UNCHANGED <<params, emitters, emitterHeap, panels, calls, initReply>>
    /\ UNCHANGED hvars

\* show() from the end of the await: a rejection of the hook rejects show();
\* otherwise the panel is created and the executor of the promise runs
ShowResume(s) ==
    /\ s \in DOMAIN sess
    /\ sess[s].pc = "validateData"
    /\ \E o \in ValidateDataAwait(params) :
          IF ~ValidateDataPasses(o)
          THEN /\ sess' = [sess EXCEPT ![s].pc = "rejected", ![s].validated = o]
               /\ result' = [result EXCEPT ![s] = Rejected]
               /\ UNCHANGED panels
          ELSE LET ps == CreateVueWebview(panels)
                   p == Len(ps)
                   h == Executor([panels |-> ps, result |-> result], p, s,
                                 sess[s].inst, sess[s].data)
               IN  /\ sess' = [sess EXCEPT ![s].pc = "shown", ![s].panel = p,
                                           ![s].validated = o]
                   /\ panels' = h.panels
                   /\ result' = h.result
    /\ initReply' = IF Len(panels') > Len(initReply)
                    THEN Append(initReply, "noreply") ELSE initReply
    /\ UNCHANGED <<params, emitters, emitterHeap, calls, log>>
    /\ UNCHANGED hvars

\* the webview of panel p calls the registered command init
InitCall(p) ==
    /\ p \in DOMAIN panels
    /\ panels[p].server["init"].kind = "init"
    /\ LET s == panels[p].server["init"].ref
       IN  initReply' = [initReply EXCEPT ![p] = InitHandler(s)]
    /\ UNCHANGED <<params, emitters, emitterHeap, sess, result, panels, calls, log>>
    /\ UNCHANGED hvars

\* the webview of panel p calls the registered command submit with response:
\* the handler runs up to "await validate", or to its end
SubmitCall(p, response) ==
    /\ p \in DOMAIN panels
    /\ panels[p].server["submit"].kind = "submit"
    /\ Len(calls) < MaxSubmits
    /\ LET s == panels[p].server["submit"].ref
       IN  \E o \in ValidateSubmitCall(params) :
              CASE o = "await" ->
                     /\ calls' = Append(calls, [sess |-> s, response |-> response, pc |-> "await"])
                     /\ UNCHANGED log
                [] o = "throw" ->
                     /\ calls' = Append(calls, [sess |-> s, response |-> "-", pc |-> "done"])
                     /\ log' = [log EXCEPT ![s] = Append(@, "failed")]
                [] OTHER ->
                     /\ calls' = Append(calls, [sess |-> s, response |-> "-", pc |-> "done"])
                     /\ log' = [log EXCEPT ![s] = Append(@, "ignored")]
    /\ UNCHANGED <<params, emitters, emitterHeap, sess, result, panels, initReply>>
    /\ UNCHANGED hvars

\* the k-th submit call continues from "await validate"
SubmitResume(k) ==
    /\ k \in DOMAIN calls
    /\ calls[k].pc = "await"
    /\ calls' = [calls EXCEPT ![k] = [sess |-> @.sess, response |-> "-", pc |-> "done"]]
    /\ LET s == calls[k].sess
       IN  \E o \in ValidateSubmitAwait :
              LET h == SubmitContinue(Heap, sess[s].panel, s, calls[k].response, o)
              IN  /\ panels' = h.panels
                  /\ result' = h.result
                  /\ log' = [log EXCEPT ![s] = Append(@,
                                 CASE o = "truthy" -> "accepted"
                                   [] o = "falsy" -> "ignored"
                                   [] OTHER -> "failed")]
    /\ UNCHANGED <<params, emitters, emitterHeap, sess, initReply>>
    /\ UNCHANGED hvars

\* the user closes panel p: the host disposes it
HostClose(p) ==
    /\ p \in DOMAIN panels
    /\ ~panels[p].disposed
    /\ LET h == PanelDispose(Heap, p)
       IN  /\ panels' = h.panels
           /\ result' = h.result
    /\ UNCHANGED <<params, emitters, emitterHeap, sess, calls, log, initReply>>
    /\ UNCHANGED hvars

\* backend code calls the dispose() that show() put on the webview of panel p
WebviewDispose(p) ==
    /\ p \in DOMAIN panels
    /\ panels[p].hasDispose
    /\ ~panels[p].disposed
    /\ LET h == ModifiedWebviewDispose(Heap, p)
       IN  /\ panels' = h.panels
           /\ result' = h.result
    /\ UNCHANGED <<params, emitters, emitterHeap, sess, calls, log, initReply>>
    /\ UNCHANGED hvars

Next ==
    \/ \E d \in Descriptors : Compile(d)
    \/ Construct
    \/ \E i \in 1..MaxInstances, data \in Data : ShowCall(i, data)
    \/ \E s \in 1..MaxSessions : ShowResume(s)
    \/ \E p \in 1..MaxSessions : InitCall(p)
    \/ \E p \in 1..MaxSessions, r \in Responses : SubmitCall(p, r)
    \/ \E k \in 1..MaxSubmits : SubmitResume(k)
    \/ \E p \in 1..MaxSessions : HostClose(p)
    \/ \E p \in 1..MaxSessions : WebviewDispose(p)

Spec == Init /\ [][Next]_vars

\* ------------------------------------------------- runs under fairness
\* The descriptors of the runs checked for progress: commands or none, a
\* validateSubmit hook or none, one event, a validateData hook.
LiveDescriptors ==
    {d \in Descriptors :
        /\ WellFormed(d)
        /\ d.commands \subseteq {"ping"}
        /\ d.hasEvents /\ d.events = <<"ev">>
        /\ d.validateData}

LiveNext ==
    \/ \E d \in LiveDescriptors : Compile(d)
    \/ Construct
    \/ \E i \in 1..MaxInstances, data \in Data : ShowCall(i, data)
    \/ \E s \in 1..MaxSessions : ShowResume(s)
    \/ \E p \in 1..MaxSessions : InitCall(p)
    \/ \E p \in 1..MaxSessions, r \in Responses : SubmitCall(p, r)
    \/ \E k \in 1..MaxSubmits : SubmitResume(k)
    \/ \E p \in 1..MaxSessions : HostClose(p)
    \/ \E p \in 1..MaxSessions : WebviewDispose(p)

\* The event loop runs the rest of a handler once the value it awaits has
\* arrived: a show() or a submit suspended at its await is continued.
FairSpec ==
    /\ Init /\ [][LiveNext]_vars
    /\ \A s \in 1..MaxSessions : WF_vars(ShowResume(s))
    /\ \A k \in 1..MaxSubmits : WF_vars(SubmitResume(k))

\* ------------------------------------------- the document of a panel alone
\* createVueWebview builds the document from the environment, the descriptor
\* and the panel only; no session is involved.
InitHtml ==
    /\ params = NotCompiled
    /\ emitters = <<>>
    /\ emitterHeap = 0
    /\ sess = <<>>
    /\ result = <<>>
    /\ panels = <<>>
    /\ calls = <<>>
    /\ log = <<>>
    /\ initReply = <<>>
    /\ env \in Envs
    /\ opts \in Opts
    /\ html = NoHtml

\* panel.webview.html = resolveWebviewHtml({...})
SetHtml ==
    /\ html = NoHtml
    /\ html' = CreateVueWebviewHtml(opts)
    /\ UNCHANGED <<svars, env, opts>>

NextHtml == SetHtml

SpecHtml == InitHtml /\ [][NextHtml]_vars

\* ----------------------------------------------------------------- claims
Sessions == DOMAIN sess
Shown(s) == sess[s].pc = "shown"
PanelOf(s) == panels[sess[s].panel]

\* number of submit calls the built-in submit handler of session s received
NCalls(s) == Cardinality({k \in DOMAIN calls : calls[k].sess = s})

\* C1: the promise of a session is settled at most once: in every step, a
\* promise that is no longer pending keeps its state and its value, whatever
\* runs (a disposal of the panel after an accepted submit, the rest of a
\* submit after a disposal, another submit).
C1_SingleResolution ==
    [][\A s \in Sessions : result[s] # Pending => result'[s] = result[s]]_vars

\* C1 witness: a session that resolved with undefined on disposal and on
\* which a submit was accepted afterwards.
C1_Witness ==
    \E s \in Sessions :
        /\ result[s] = Resolved(Undefined)
        /\ "accepted" \in Range(log[s])

\* C2: a session whose panel is disposed while no submit call has been made
\* on it is resolved with undefined.
C2_DisposeBeforeSubmit ==
    \A s \in Sessions :
        (Shown(s) /\ PanelOf(s).disposed /\ NCalls(s) = 0)
            => result[s] = Resolved(Undefined)

\* C2 witness: the scenario of the specification: commands {ping}, an empty
\* event map, show(), the panel is disposed, no submit was ever called.
C2_Witness ==
    \E s \in Sessions :
        /\ params.hasCommands /\ params.commands = {"ping"}
        /\ params.hasEvents /\ params.events = <<>>
        /\ Shown(s) /\ PanelOf(s).disposed /\ NCalls(s) = 0
        /\ result[s] = Resolved(Undefined)

\* a step in which a submit call of session s ends for its caller as tag
SubmitEnds(s, tag) == log'[s] = Append(log[s], tag)

\* session s is open: shown, promise pending, panel open, listener registered
Open(s) ==
    /\ Shown(s)
    /\ result[s] = Pending
    /\ ~PanelOf(s).disposed
    /\ PanelOf(s).listeners[s]

C4_NoHookAccepts ==
    [][\A s \in Sessions :
          (params.hasCommands /\ ~params.validateSubmit /\ Open(s)
             /\ Len(log'[s]) > Len(log[s]))
          => /\ result'[s].state = "resolved"
             /\ result'[s].value \in Responses
             /\ panels'[sess[s].panel].disposed
      ]_vars

\* C5: a submit call that fails because the hook threw or rejected changes
\* no panel and no promise: an open session stays pending, its panel open
\* and its disposal listener registered.
C5_SubmitFailureKeepsSession ==
    [][\A s \in Sessions :
          SubmitEnds(s, "failed") =>
             /\ result' = result /\ panels' = panels /\ sess' = sess
             /\ Open(s) => (result'[s] = Pending
                            /\ ~panels'[sess[s].panel].disposed
                            /\ panels'[sess[s].panel].listeners[s])
      ]_vars

\* C5 witness: a submit failed on the hook, and the session was resolved
\* afterwards by an accepted submit with its value.
C5_Witness ==
    \E s \in Sessions :
        /\ log[s] = <<"failed", "accepted">>
        /\ result[s].state = "resolved"
        /\ result[s].value \in Responses

\* session s has just got its panel in this step
ShownNow(s) == sess[s].pc = "validateData" /\ sess'[s].pc = "shown"

\* C6: every show() that opens a session gets a panel that did not exist
\* before, open and with a pending promise; and a step that settles the
\* promise of a session or changes its panel (a disposal, a submit) leaves
\* the promise and the panel of every other session as they were.
C6_IndependentSessions ==
    [][\A s \in Sessions :
          /\ ShownNow(s) =>
                /\ sess'[s].panel \notin DOMAIN panels
                /\ ~panels'[sess'[s].panel].disposed
                /\ result'[s] = Pending
          /\ (Shown(s) /\ (result'[s] # result[s]
                            \/ panels'[sess[s].panel] # panels[sess[s].panel])) =>
                \A t \in Sessions \ {s} :
                    /\ result'[t] = result[t]
                    /\ Shown(t) => panels'[sess[t].panel] = panels[sess[t].panel]
      ]_vars

\* C6 witness: two sessions of one instance were open together; one has
\* been resolved by a submit and its panel disposed, the other is still
\* open.
C6_Witness ==
    \E s, t \in Sessions :
        /\ s # t /\ sess[s].inst = sess[t].inst
        /\ Shown(s) /\ PanelOf(s).disposed /\ result[s] = Resolved("ok")
        /\ Open(t)

\* C7: every instance has one emitter per declared event key and no other
\* (none when the event map is absent), the emitters of an instance are
\* distinct objects created by its constructor, and no emitter belongs to
\* two instances.
C7_EmittersPerInstance ==
    \A i \in DOMAIN emitters :
        /\ DOMAIN emitters[i] = Range(EventKeys(params))
        /\ Cardinality(Range(emitters[i])) = Len(EventKeys(params))
        /\ Range(emitters[i]) \subseteq 1..emitterHeap
        /\ emitterHeap = Len(emitters) * Len(EventKeys(params))
        /\ \A j \in DOMAIN emitters \ {i} :
               Range(emitters[i]) \cap Range(emitters[j]) = {}

\* C7 witness: two instances of a class with two declared events.
C7_Witness ==
    /\ Len(emitters) = 2
    /\ params.hasEvents /\ Len(params.events) = 2
    /\ Cardinality(Range(emitters[1]) \cup Range(emitters[2])) = 4

C9_PanelIffValidated ==
    /\ \A s \in Sessions :
          /\ Shown(s) <=> sess[s].validated \in {"truthy", "falsy", "undefined"}
          /\ sess[s].pc = "rejected" <=> sess[s].validated \in {"throw", "reject"}
          /\ Shown(s) <=> sess[s].panel \in DOMAIN panels
          /\ sess[s].validated = "undefined" => ~params.validateData
          /\ sess[s].pc = "rejected" =>
                /\ result[s] = Rejected
                /\ \A p \in DOMAIN panels :
                      /\ ~panels[p].listeners[s]
                      /\ \A k \in AllKeys : panels[p].server[k].kind \in {"init", "submit"}
                                                => panels[p].server[k].ref # s
    /\ Len(panels) = Cardinality({s \in Sessions : sess[s].validated
                                       \in {"truthy", "falsy", "undefined"}})

\* C9 witness: one show() whose hook returned a falsy value has an open
\* panel, another whose hook rejected has none.
C9_Witness ==
    \E s, t \in Sessions :
        /\ sess[s].validated = "falsy" /\ Open(s)
        /\ sess[t].validated = "reject" /\ sess[t].panel = 0
        /\ Len(panels) = 1

\* C10: a step that compiles the descriptor or constructs an instance
\* leaves the panels, and with them every registration, as they were; the
\* number of panels changes only in a step in which a show() gets past
\* validateData, and then by one.
C10_PanelsOnlyByShow ==
    [][/\ (params' # params \/ emitters' # emitters) => panels' = panels
       /\ Len(panels') # Len(panels) =>
             /\ Len(panels') = Len(panels) + 1
             /\ Cardinality({s \in Sessions : ShownNow(s)}) = 1
      ]_vars

\* C10 witness: a class compiled, two instances constructed and one show()
\* past validateData: there is one panel, and it is that session's.
C10_Witness ==
    /\ Len(emitters) = 2
    /\ Len(sess) = 1 /\ Shown(1)
    /\ Len(panels) = 1 /\ sess[1].panel = 1 /\ ~panels[1].disposed

\* the source list names the URL, with or without the "/" Uri.parse adds
Names(sources, url) == \E n \in DOMAIN sources : sources[n] \in {url, url \o "/"}

DevServer == [defined |-> TRUE, text |-> <<"http", "localhost:9000", "">>]
Bundled(js) == "https://file+.vscode-resource.vscode-cdn.net/ext/dist/" \o js

\* what the document is when the variable is unset: the bundled main script,
\* the panel's cspSource alone and connect-src none
HtmlUnset ==
    ~env.defined =>
        /\ html.main = Bundled(opts.webviewJs)
        /\ html.scriptSrc = <<opts.cspSource>>
        /\ html.imgSrc = <<opts.cspSource, "https:">>
        /\ html.styleSrc = <<opts.cspSource, "'unsafe-inline'">>
        /\ html.connectSrc = <<"none">>

\* C11: the document of a panel depends on WEBPACK_DEVELOPER_SERVER: set to
\* http://localhost:9000, the main script is http://localhost:9000/<webviewJs>,
\* script-src names that URL, connect-src names that URL and has ws:; unset,
\* the main script is the bundled resource, the sources are the panel's
\* cspSource alone and connect-src is none.
C11_HtmlByEnvironment ==
    html # NoHtml =>
        /\ env = DevServer =>
              /\ html.main = "http://localhost:9000/" \o opts.webviewJs
              /\ Names(html.scriptSrc, "http://localhost:9000")
              /\ Names(html.connectSrc, "http://localhost:9000")
              /\ "ws:" \in Range(html.connectSrc)
        /\ HtmlUnset

\* C11 as the code has it: with the variable set, connect-src is 'self' ws:
\* and does not name the server; the rest is as claimed.
C11_HtmlByEnvironmentAmended ==
    html # NoHtml =>
        /\ env = DevServer =>
              /\ html.main = "http://localhost:9000/" \o opts.webviewJs
              /\ Names(html.scriptSrc, "http://localhost:9000")
              /\ html.connectSrc = <<"'self'", "ws:">>
              /\ ~Names(html.connectSrc, "http://localhost:9000")
        /\ HtmlUnset

\* C11 witness: a document built with the variable set to
\* http://localhost:9000 for a main script in a subdirectory.
C11_Witness ==
    /\ html # NoHtml
    /\ env = DevServer
    /\ opts.webviewJs = "lambda/index.js"

\* The state of session s in the session state machine: CREATED until
\* show() has its panel (a show() that validateData rejects stays there),
\* PANEL_OPEN while the promise is pending, then DISPOSED (resolved with
\* undefined) or SUBMITTED (resolved with a submitted value).
Phase(s) ==
    IF sess[s].pc # "shown" THEN "CREATED"
    ELSE IF result[s] = Pending THEN "PANEL_OPEN"
    ELSE IF result[s] = Resolved(Undefined) THEN "DISPOSED"
    ELSE "SUBMITTED"

Transitions ==
    {<<"CREATED", "PANEL_OPEN">>, <<"PANEL_OPEN", "DISPOSED">>,
     <<"PANEL_OPEN", "SUBMITTED">>}

\* C12: a session starts in CREATED and moves only along CREATED ->
\* PANEL_OPEN -> {DISPOSED | SUBMITTED}; submit and the disposal event take
\* effect in PANEL_OPEN only: a session in CREATED is not resolved, and in a
\* terminal state no step changes its promise or its panel with the
\* listeners on it, whatever handler runs (the rest of a submit after the
\* disposal, the rest of a second submit).
C12_SessionStateMachine ==
    [][\A s \in DOMAIN sess' :
          IF s \notin Sessions
          THEN Phase(s)' = "CREATED"
          ELSE /\ Phase(s)' # Phase(s) => <<Phase(s), Phase(s)'>> \in Transitions
               /\ Phase(s)' = "CREATED" => result'[s].state # "resolved"
               /\ Phase(s) \in {"DISPOSED", "SUBMITTED"} =>
                     /\ result'[s] = result[s]
                     /\ panels'[sess[s].panel] = PanelOf(s)]_vars

\* C12 witness: a session on which two submits were accepted; the second
\* ran its accepted branch on a session already in SUBMITTED.
C12_Witness ==
    \E s \in Sessions :
        /\ Phase(s) = "SUBMITTED"
        /\ log[s] = <<"accepted", "accepted">>

\* C13: an accepted submit removes the disposal listener, then disposes the
\* panel, then resolves: in the step that ends a submit as accepted the
\* panel does not call the disposal callback of the session, and on an open
\* session that step disposes the panel with the listener gone and resolves
\* the promise with the submitted value, not with undefined.
C13_AcceptOrder ==
    [][\A s \in Sessions : SubmitEnds(s, "accepted") =>
          LET p == sess[s].panel
          IN  /\ panels'[p].fired[s] = panels[p].fired[s]
              /\ Open(s) =>
                    /\ ~panels'[p].fired[s]
                    /\ ~panels'[p].listeners[s]
                    /\ panels'[p].disposed
                    /\ result'[s] # Resolved(Undefined)
                    /\ \E k \in DOMAIN calls :
                          /\ calls[k].sess = s /\ calls[k].pc = "await"
                          /\ calls'[k].pc = "done"
                          /\ result'[s] = Resolved(calls[k].response)]_vars

\* C13 witness: a session resolved with a submitted value whose panel is
\* disposed and never called the disposal callback of the session.
C13_Witness ==
    \E s \in Sessions :
        /\ "accepted" \in Range(log[s])
        /\ result[s] \in {Resolved(r) : r \in Responses}
        /\ PanelOf(s).disposed
        /\ ~PanelOf(s).fired[s]

\* the promise of session s goes from pending to resolved in this step
Resolves(s) == result[s] = Pending /\ result'[s].state = "resolved"

\* C14: once the panel of a session is disposed, the promise show()
\* returned resolves; it resolves only in a step that disposes the panel,
\* either with undefined by the disposal callback or with the submitted
\* value by a submit that ends as accepted; and while the panel is open and
\* no submit was accepted it is pending.
C14_Liveness ==
    /\ \A s \in 1..MaxSessions :
          (s \in Sessions /\ Shown(s) /\ PanelOf(s).disposed)
              ~> (s \in Sessions /\ result[s].state = "resolved")
    /\ [][\A s \in Sessions : Resolves(s) =>
             LET p == sess[s].panel
             IN  /\ Shown(s) /\ ~panels[p].disposed /\ panels'[p].disposed
                 /\ \/ result'[s] = Resolved(Undefined) /\ panels'[p].fired[s]
                    \/ SubmitEnds(s, "accepted") /\ ~panels'[p].fired[s]]_vars
    /\ [](\A s \in Sessions :
             (Shown(s) /\ ~PanelOf(s).disposed /\ "accepted" \notin Range(log[s]))
                 => result[s] = Pending)

\* C14 witness: a session whose panel the host or dispose() closed and whose
\* promise resolved by the disposal callback, with no submit accepted.
C14_Witness ==
    \E s \in Sessions :
        /\ Shown(s) /\ PanelOf(s).disposed /\ PanelOf(s).fired[s]
        /\ result[s] = Resolved(Undefined)
        /\ "accepted" \notin Range(log[s])

\* C15: a call of the dispose() that show() put on the webview disposes the
\* panel of the session and resolves a still pending promise with undefined;
\* and a promise resolves with undefined only in a step that closes the
\* panel, by the host or by that dispose().
C15_DisposeFunction ==
    [][\A s \in Sessions : Shown(s) =>
          LET p == sess[s].panel
          IN  /\ WebviewDispose(p) =>
                    /\ panels'[p].disposed
                    /\ result[s] = Pending => result'[s] = Resolved(Undefined)
                    /\ result[s] # Pending => result'[s] = result[s]
              /\ (Resolves(s) /\ result'[s] = Resolved(Undefined)) =>
                    /\ HostClose(p) \/ WebviewDispose(p)
                    /\ ~panels[p].disposed /\ panels'[p].disposed]_vars

\* C15 witness: a session with the dispose() on its webview, on which no
\* submit was ever called, whose panel was closed and whose promise
\* resolved with undefined.
C15_Witness ==
    \E s \in Sessions :
        /\ Shown(s) /\ PanelOf(s).hasDispose /\ PanelOf(s).disposed
        /\ NCalls(s) = 0
        /\ result[s] = Resolved(Undefined)

\* C16: between two runs of the event loop, the promise of a session is
\* resolved if and only if the session has a panel and the panel is disposed.
C16_ResolvedIffDisposed ==
    \A s \in Sessions :
        result[s].state = "resolved" <=> (Shown(s) /\ PanelOf(s).disposed)

\* C16 witness: two sessions, one resolved with its panel disposed while a
\* submit on it is still suspended, the other pending with its panel open.
C16_Witness ==
    \E s, u \in Sessions :
        /\ Shown(s) /\ result[s].state = "resolved" /\ PanelOf(s).disposed
        /\ \E k \in DOMAIN calls : calls[k].sess = s /\ calls[k].pc = "await"
        /\ Shown(u) /\ result[u] = Pending /\ ~PanelOf(u).disposed

\* C17: under a descriptor without commands, also one with events, show()
\* registers nothing: no key is bound on any panel (no init, no submit, no
\* emitter), no webview gets the dispose(), the emitters or the arguments,
\* and a promise is pending, rejected or resolved with undefined, the last
\* only with the panel disposed.
C17_NoCommandsNoServer ==
    (params.compiled /\ ~params.hasCommands) =>
        /\ \A p \in DOMAIN panels :
              /\ panels[p].server = NoServer
              /\ ~panels[p].hasDispose
              /\ panels[p].emitters = 0
              /\ panels[p].arguments = "unset"
        /\ calls = <<>>
        /\ \A s \in Sessions :
              /\ result[s] \in {Pending, Rejected, Resolved(Undefined)}
              /\ result[s] = Resolved(Undefined) =>
                    Shown(s) /\ PanelOf(s).disposed /\ PanelOf(s).fired[s]

\* C17 witness: a descriptor with events and without commands, an instance
\* with its emitters, one session resolved with undefined on disposal and
\* one still open.
C17_Witness ==
    /\ params.compiled /\ ~params.hasCommands
    /\ params.hasEvents /\ params.events = <<"ev", "init">>
    /\ \E s, u \in Sessions :
          /\ DOMAIN emitters[sess[s].inst] = {"ev", "init"}
          /\ result[s] = Resolved(Undefined) /\ PanelOf(s).disposed
          /\ Shown(u) /\ result[u] = Pending

\* the keys bound on the messaging channel of a panel
BoundKeys(server) == {k \in AllKeys : server[k] # None}

\* C18: the protocol registered for a session binds exactly init, submit,
\* the command keys of the descriptor and the emitter keys of the instance;
\* a key declared twice goes to the emitter, else to the descriptor's
\* command, else to the built-in of the session; and a session whose submit
\* key is not its built-in never runs the built-in and is not resolved with
\* a submitted value.
C18_ProtocolKeys ==
    \A s \in Sessions : (Shown(s) /\ params.hasCommands) =>
        LET server == PanelOf(s).server
            ems == emitters[sess[s].inst]
        IN  /\ BoundKeys(server) = {"init", "submit"} \cup params.commands \cup DOMAIN ems
            /\ DOMAIN ems = Range(EventKeys(params))
            /\ \A k \in BoundKeys(server) :
                  server[k] = IF k \in DOMAIN ems
                                  THEN [kind |-> "emitter", ref |-> ems[k]]
                              ELSE IF k \in params.commands
                                  THEN [kind |-> "command", ref |-> 0]
                              ELSE [kind |-> k, ref |-> s]
            /\ server["submit"].kind # "submit" =>
                  /\ NCalls(s) = 0
                  /\ result[s] \in {Pending, Resolved(Undefined)}

\* C18 witness: a descriptor with a command named submit and an event named
\* init: the registered submit is the descriptor's command, the registered
\* init is the emitter, and the session ended on the disposal of its panel.
C18_Witness ==
    \E s \in Sessions :
        /\ Shown(s)
        /\ params.hasCommands /\ params.commands = {"ping", "submit"}
        /\ params.hasEvents /\ params.events = <<"ev", "init">>
        /\ PanelOf(s).server["submit"].kind = "command"
        /\ PanelOf(s).server["init"].kind = "emitter"
        /\ result[s] = Resolved(Undefined)

\* an event fired on emitter e is offered to panel p: the protocol
\* registered on the channel of p holds e
Offered(e, p) ==
    \E k \in AllKeys : panels[p].server[k] = [kind |-> "emitter", ref |-> e]

\* C19: the emitters of an instance are created by the constructor and stay
\* the same objects in every step; a session with a registered protocol
\* has on its webview and in its protocol the emitter objects of its own
\* instance, so that an emitter of an instance is offered to every such
\* session of that instance and to no session of another instance; and a
\* registered protocol is not changed by a later show(), a submit or a
\* disposal.
C19_SharedEmitters ==
    /\ [](\A s \in Sessions : (Shown(s) /\ params.hasCommands) =>
             /\ PanelOf(s).emitters = sess[s].inst
             /\ \A i \in DOMAIN emitters : \A k \in DOMAIN emitters[i] :
                   /\ Offered(emitters[i][k], sess[s].panel) <=> i = sess[s].inst
                   /\ i = sess[s].inst =>
                         PanelOf(s).server[k] = [kind |-> "emitter", ref |-> emitters[i][k]])
    /\ [][/\ \A i \in DOMAIN emitters : emitters'[i] = emitters[i]
          /\ \A s \in Sessions : Shown(s) =>
                /\ panels'[sess[s].panel].server = PanelOf(s).server
                /\ panels'[sess[s].panel].emitters = PanelOf(s).emitters]_vars

\* C19 witness: two instances with emitters of their own; two sessions of
\* the same instance hold the same emitter object in their protocols, one
\* of them after an accepted submit disposed its panel.
C19_Witness ==
    /\ Len(emitters) = 2
    /\ "ev" \in DOMAIN emitters[1]
    /\ emitters[1]["ev"] # emitters[2]["ev"]
    /\ \E s, u \in Sessions :
          /\ s # u /\ Shown(s) /\ Shown(u) /\ sess[s].inst = sess[u].inst
          /\ sess[s].panel # sess[u].panel
          /\ Offered(emitters[sess[s].inst]["ev"], sess[s].panel)
          /\ Offered(emitters[sess[s].inst]["ev"], sess[u].panel)
          /\ "accepted" \in Range(log[s]) /\ PanelOf(s).disposed

====
